---- MODULE Spec2Model ----
(***************************************************************************)
(* Chat session and message-history model of the EasyRecipe front end      *)
(* (frontend/src/App.jsx and components/Chat/MessageInput.jsx).            *)
(*                                                                         *)
(* The App component keeps its state in React hooks.  Every handler is a   *)
(* closure over the state of the render it was created in: the part of a   *)
(* handler that runs after an `await` still reads the `sessions`,          *)
(* `currentSessionId` and `messages` of that render, while the functional  *)
(* updates setX(prev => ...) read the state current when they run.  A      *)
(* request in flight therefore carries the closure of its handler.         *)
(* JavaScript runs each handler segment between two awaits atomically, so  *)
(* each segment is one action.                                             *)
(***************************************************************************)
EXTENDS Integers, Sequences, FiniteSets, TLC

\* ------------------------------------------------------------------ bounds
\* User events (clicks, key strokes, submissions) in one run; the responses
\* to the requests they issue are not counted.
MaxEvents == 3

\* Sessions of a list that is saved to the Local Cache and loaded back.
MaxListLen == 2

\* ------------------------------------------------------------ value domains
\* null / no value (session ids are positive).
NULL == 0

\* Strings are sequences of characters, so that trim() is computed.
\* What the user may type into the message box.
RawTexts == { <<>>, <<" ">>, <<"e">>, <<" ", "e", " ">> }
\* What the user may type into the rename box.
RawNames == { <<>>, <<" ">>, <<"S">>, <<"S", " ">> }
\* Recipe lists the generation endpoint may return (a recipe is its name).
RecipeLists == { <<>>, <<"Pancakes">> }
\* error.response?.data?.detail of a failed generation request: absent,
\* empty, or a text.
NoDetail == <<>>
Details == { NoDetail, <<"Rate limit exceeded">> }
\* response.data of the generation endpoint: <<>> when it carries no recipes
\* property, <<l>> when it carries the list l.
RecipeData == { <<>> } \cup { <<l>> : l \in RecipeLists }

\* ------------------------------------------------------------------ strings
IsSpace(c) == c = " "

RECURSIVE TrimStart(_)
TrimStart(s) ==
    IF s # <<>> /\ IsSpace(Head(s)) THEN TrimStart(Tail(s)) ELSE s

RECURSIVE TrimEnd(_)
TrimEnd(s) ==
    IF s # <<>> /\ IsSpace(s[Len(s)]) THEN TrimEnd(SubSeq(s, 1, Len(s) - 1)) ELSE s

\* String.prototype.trim()
Trim(s) == TrimEnd(TrimStart(s))

\* Decimal digits of a small number, for the default session name.
Digits == <<"1", "2", "3", "4", "5", "6", "7", "8", "9">>

\* `Recipe Analysis ${n}`
DefaultName(n) == <<"Recipe Analysis ", Digits[n]>>

\* The default title of the recipe_chats table.
DefaultTitle == <<"Recipe Analysis">>

\* 'Failed to get recipe suggestions. Please try again.'
GenericError == <<"Failed to get recipe suggestions. Please try again.">>

\* ---------------------------------------------------------------- sequences
RECURSIVE SelectSeqBy(_, _)
\* s.filter(x => x.id # id)
SelectSeqBy(s, id) ==
    IF s = <<>> THEN <<>>
    ELSE IF Head(s).id # id THEN <<Head(s)>> \o SelectSeqBy(Tail(s), id)
         ELSE SelectSeqBy(Tail(s), id)

Ids(s) == { s[i].id : i \in 1..Len(s) }

\* sessions.find(s => s.id === sessionId): the first match.
Find(s, id) == s[CHOOSE i \in 1..Len(s) : s[i].id = id /\ \A j \in 1..(i - 1) : s[j].id # id]

\* --------------------------------------------------------------- data model
\* A session of the list: { id, name, createdAt, messages }.
Session(id, name, createdAt, msgs) ==
    [id |-> id, name |-> name, createdAt |-> createdAt, messages |-> msgs]

\* A message: { type, content }.  The code's message ids and timestamps are
\* not read by any operation; `re` records the ingredients of the exchange the
\* message belongs to (the code links a reply to its question by position only).
UserMessage(ingredients) ==
    [type |-> "user", content |-> ingredients, re |-> ingredients]

AiMessage(recipes, ingredients) ==
    [type |-> "ai", content |-> recipes, re |-> ingredients]

\* ------------------------------------------------------------- Local Cache
\* JSON.stringify of a message: its properties in insertion order.
StringifyMessage(m) ==
    << <<"type", m.type>>, <<"content", m.content>>, <<"re", m.re>> >>

\* JSON.stringify of a session object.
StringifySession(s) ==
    << <<"id", s.id>>, <<"name", s.name>>, <<"createdAt", s.createdAt>>,
       <<"messages", [i \in 1..Len(s.messages) |-> StringifyMessage(s.messages[i])]>> >>

\* JSON.stringify(updatedSessions)
Stringify(ss) == [i \in 1..Len(ss) |-> StringifySession(ss[i])]

\* The value of property `key` of a serialized object.
Property(obj, key) == obj[CHOOSE i \in 1..Len(obj) : obj[i][1] = key][2]

ParseMessage(b) ==
    [type |-> Property(b, "type"), content |-> Property(b, "content"),
     re |-> Property(b, "re")]

\* Mutant of ParseSession: the messages are not read back.
ParseSessionNoMessages(b) ==
    Session(Property(b, "id"), Property(b, "name"), Property(b, "createdAt"), <<>>)

ParseSession(b) ==
    LET ms == Property(b, "messages")
    IN  Session(Property(b, "id"), Property(b, "name"), Property(b, "createdAt"),
                [i \in 1..Len(ms) |-> ParseMessage(ms[i])])

\* JSON.parse(savedSessions)
Parse(blob) == [i \in 1..Len(blob) |-> ParseSession(blob[i])]

\* localStorage holds no item under the key, or one blob.
NoItem == <<>>
Item(blob) == <<blob>>

\* ---------------------------------------------------------- Remote Chat Store
\* One row group of recipe_chats per session_id: title, chats in insertion order.
Chat(ingredients, recipes) == [ingredients |-> ingredients, recipes |-> recipes]

RemoteSession(id, title, history) ==
    [id |-> id, title |-> title, createdAt |-> id, history |-> history]

\* GET /api/chat/sessions: the sessions, most recent first, without messages.
SessionsResponse(store) ==
    [i \in 1..Len(store) |->
        Session(store[i].id, store[i].title, store[i].createdAt, <<>>)]

\* GET /api/chat/history/{sessionId}
HistoryResponse(store, id) ==
    IF id \in Ids(store) THEN Find(store, id).history ELSE <<>>

\* DELETE /api/chat/session/{sessionId}
RemoteDelete(store, id) == SelectSeqBy(store, id)

\* PUT /api/chat/session/{sessionId}/title
RemoteRename(store, id, title) ==
    [i \in 1..Len(store) |->
        IF store[i].id = id THEN [store[i] EXCEPT !.title = title] ELSE store[i]]

\* POST /api/chat/send: one more row for the session; a session_id not seen
\* before becomes the most recent session.
RemoteSend(store, id, ingredients, recipes) ==
    IF id \in Ids(store)
    THEN [i \in 1..Len(store) |->
            IF store[i].id = id
            THEN [store[i] EXCEPT !.history = Append(@, Chat(ingredients, recipes))]
            ELSE store[i]]
    ELSE <<RemoteSession(id, DefaultTitle, <<Chat(ingredients, recipes)>>)>> \o store

\* Sessions 11 and 12 were created in an earlier run of the application.
OldChat == Chat(<<"e">>, <<"Pancakes">>)
OldSession(id) == RemoteSession(id, DefaultTitle, <<OldChat>>)
OldCache ==
    Item(Stringify(<<Session(11, DefaultName(1), 11,
                             <<UserMessage(<<"e">>), AiMessage(<<"Pancakes">>, <<"e">>)>>)>>))

\* The remote store and the cache a run may start with: a first visit, a
\* known user in a new browser, a known user in a browser used before.
InitWorlds ==
    { <<<<>>, NoItem>>,
      <<<<OldSession(12), OldSession(11)>>, NoItem>>,
      <<<<OldSession(12), OldSession(11)>>, OldCache>> }

\* ------------------------------------------------------------------- state
VARIABLES
    sessions,          \* useState([]): the session list, most recent first
    currentSessionId,  \* useState(null): the active session id
    messages,          \* useState([]): the in-memory message sequence
    isLoading,         \* useState(false)
    error,             \* useState(null)
    editingSessionId,  \* useState(null)
    editingName,       \* useState('')
    localStorage,      \* the item 'easyrecipe_sessions'
    remote,            \* the Remote Chat Store
    inflight,          \* requests awaiting their response, with their closures
    nextId,            \* sessions generated so far + 1 (generateSessionId)
    events,            \* user events so far
    last               \* the step taken last (history variable)

vars == <<sessions, currentSessionId, messages, isLoading, error, editingSessionId,
          editingName, localStorage, remote, inflight, nextId, events, last>>

NoError == <<>>

\* A request in flight: what was asked (kind, sid, text), the closure of the
\* handler that awaits it (sessions, cur, messages), and the user operation it
\* stems from (root, a history field).
Request(kind, sid, text, cs, cur, cm, root) ==
    [kind |-> kind, sid |-> sid, text |-> text, sessions |-> cs, cur |-> cur,
     messages |-> cm, root |-> root]

\* The user operation a request stems from: its name, its target, the session
\* active when it began, whether the list then held another session than the
\* target, and whether its remote delete has succeeded.
Root(op, sid) ==
    [op |-> op, sid |-> sid, cur |-> currentSessionId,
     others |-> Ids(sessions) \ {sid} # {}, deleted |-> FALSE]

\* The mount effect runs in the first render, where no session is active.
MountRoot ==
    [op |-> "mount", sid |-> NULL, cur |-> NULL, others |-> FALSE, deleted |-> FALSE]

\* The step just taken: its name, the session it was about, its input (what
\* the user typed, what the response carried), the user operation it belongs
\* to, and whether every step since that operation began was a step of that
\* operation (solo).
Step(op, sid, arg, root, solo) ==
    [op |-> op, sid |-> sid, arg |-> arg, root |-> root, solo |-> solo]

\* A user event starts an operation of its own.  It counts as running alone
\* only when no request of an earlier, equal operation is still in flight.
Event(op, sid, arg) ==
    Step(op, sid, arg, Root(op, sid),
         \A r \in inflight : [r.root EXCEPT !.deleted = FALSE] # Root(op, sid))

\* The continuation of request r.
Cont(op, r, arg) == Step(op, r.sid, arg, r.root, last.solo /\ last.root = r.root)

\* A user event: one more of the MaxEvents of the run.
UserEvent ==
    /\ events < MaxEvents
    /\ events' = events + 1

\* useState initial values; the mount effect has issued GET /api/chat/sessions
\* from the first render, whose `sessions` is [].
Init ==
    /\ sessions = <<>>
    /\ currentSessionId = NULL
    /\ messages = <<>>
    /\ isLoading = FALSE
    /\ error = NoError
    /\ editingSessionId = NULL
    /\ editingName = <<>>
    /\ \E w \in InitWorlds : remote = w[1] /\ localStorage = w[2]
    /\ inflight = {Request("mount", NULL, <<>>, <<>>, NULL, <<>>, MountRoot)}
    /\ nextId = 1
    /\ events = 0
    /\ last = Step("mount", NULL, <<>>, MountRoot, TRUE)

\* ------------------------------------------------------------ Session Manager
\* Mutant of createNewSession: setSessions(prev => [...prev, newSession]).
createNewSessionAtTail ==
    LET newSession == Session(nextId, DefaultName(Len(sessions) + 1), nextId, <<>>)
        updatedSessions == <<newSession>> \o sessions
    IN  /\ sessions' = Append(sessions, newSession)
        /\ currentSessionId' = newSession.id
        /\ messages' = <<>>
        /\ error' = NoError
        /\ localStorage' = Item(Stringify(updatedSessions))
        /\ nextId' = nextId + 1

\* createNewSession: the state it sets.  It runs in the render whose state is
\* current, so its `sessions` is the current list.
createNewSession ==
    LET newSession == Session(nextId, DefaultName(Len(sessions) + 1), nextId, <<>>)
        updatedSessions == <<newSession>> \o sessions
    IN  /\ sessions' = updatedSessions
        /\ currentSessionId' = newSession.id
        /\ messages' = <<>>
        /\ error' = NoError
        /\ localStorage' = Item(Stringify(updatedSessions))
        /\ nextId' = nextId + 1

\* The "New Recipe Chat" button.
ClickNewSession ==
    /\ UserEvent
    /\ createNewSession
    /\ last' = Event("create", nextId, <<>>)
    /\ UNCHANGED <<isLoading, editingSessionId, editingName, remote, inflight>>

\* Mutant of loadSession: no check that the session is in the list.
loadSessionUnchecked(sessionId, cs, others, root) ==
    /\ currentSessionId' = sessionId
    /\ error' = NoError
    /\ inflight' = others \cup
           {Request("history", sessionId, <<>>, cs, NULL, <<>>, root)}

\* loadSession(sessionId) up to its await, called from a render whose
\* `sessions` is cs: when cs holds the session, it becomes active and its
\* history is requested; otherwise nothing happens.  `others` are the requests
\* that stay in flight.
loadSession(sessionId, cs, others, root) ==
    IF sessionId \in Ids(cs)
    THEN /\ currentSessionId' = sessionId
         /\ error' = NoError
         /\ inflight' = others \cup
                {Request("history", sessionId, <<>>, cs, NULL, <<>>, root)}
    ELSE /\ inflight' = others
         /\ UNCHANGED <<currentSessionId, error>>

\* A click on a session of the sidebar.
ClickSession(sessionId) ==
    /\ UserEvent
    /\ sessionId \in Ids(sessions)
    /\ loadSession(sessionId, sessions, inflight, Root("load", sessionId))
    /\ last' = Event("load", sessionId, <<>>)
    /\ UNCHANGED <<sessions, messages, isLoading, editingSessionId, editingName,
                   localStorage, remote, nextId>>

\* Convert backend data to frontend message format.
RECURSIVE BackendMessages(_)
BackendMessages(history) ==
    IF history = <<>> THEN <<>>
    ELSE <<UserMessage(Head(history).ingredients),
           AiMessage(Head(history).recipes, Head(history).ingredients)>>
         \o BackendMessages(Tail(history))

\* Mutant of WithMessages: the messages are stored in every session.
WithMessagesAll(cs, sessionId, msgs) ==
    [i \in 1..Len(cs) |-> [cs[i] EXCEPT !.messages = msgs]]

\* sessions.map(s => s.id === sessionId ? { ...s, messages } : s)
WithMessages(cs, sessionId, msgs) ==
    [i \in 1..Len(cs) |->
        IF cs[i].id = sessionId THEN [cs[i] EXCEPT !.messages = msgs] ELSE cs[i]]

\* loadSession after its await, the history arrived: a non-empty history
\* replaces the messages and is stored in the closure's session list.
HistoryArrived(r) ==
    LET history == HistoryResponse(remote, r.sid)
        backendMessages == BackendMessages(history)
        updatedSessions == WithMessages(r.sessions, r.sid, backendMessages)
    IN  /\ UNCHANGED events
        /\ r \in inflight /\ r.kind = "history"
        /\ inflight' = inflight \ {r}
        /\ IF Len(history) > 0
           THEN /\ messages' = backendMessages
                /\ sessions' = updatedSessions
                /\ localStorage' = Item(Stringify(updatedSessions))
                /\ last' = Cont("historyOk", r, <<>>)
           ELSE /\ messages' = Find(r.sessions, r.sid).messages
                /\ last' = Cont("historyEmpty", r, <<>>)
                /\ UNCHANGED <<sessions, localStorage>>
        /\ UNCHANGED <<currentSessionId, isLoading, error, editingSessionId,
                       editingName, remote, nextId>>

\* Mutant of HistoryFailed: the catch block shows no messages.
HistoryFailedClears(r) ==
    /\ UNCHANGED events
    /\ r \in inflight /\ r.kind = "history"
    /\ inflight' = inflight \ {r}
    /\ messages' = <<>>
    /\ last' = Cont("historyFail", r, <<>>)
    /\ UNCHANGED <<sessions, currentSessionId, isLoading, error, editingSessionId,
                   editingName, localStorage, remote, nextId>>

\* Mutant of HistoryFailed: the catch block reports the failure to the user.
HistoryFailedSetsError(r) ==
    /\ UNCHANGED events
    /\ r \in inflight /\ r.kind = "history"
    /\ inflight' = inflight \ {r}
    /\ messages' = Find(r.sessions, r.sid).messages
    /\ error' = GenericError
    /\ last' = Cont("historyFail", r, <<>>)
    /\ UNCHANGED <<sessions, currentSessionId, isLoading, editingSessionId,
                   editingName, localStorage, remote, nextId>>

\* loadSession after its await, the request failed: the closure's messages.
HistoryFailed(r) ==
    /\ UNCHANGED events
    /\ r \in inflight /\ r.kind = "history"
    /\ inflight' = inflight \ {r}
    /\ messages' = Find(r.sessions, r.sid).messages
    /\ last' = Cont("historyFail", r, <<>>)
    /\ UNCHANGED <<sessions, currentSessionId, isLoading, error, editingSessionId,
                   editingName, localStorage, remote, nextId>>

\* Mutant of MountArrived: an empty remote result leaves the state as it is.
MountArrivedKeepsOnEmpty(r) ==
    LET list == SessionsResponse(remote)
    IN  /\ UNCHANGED events
        /\ r \in inflight /\ r.kind = "mount"
        /\ last' = Cont("mountOk", r, <<>>)
        /\ IF Len(list) > 0
           THEN /\ sessions' = list
                /\ loadSession(list[1].id, r.sessions, inflight \ {r}, r.root)
                /\ UNCHANGED messages
           ELSE /\ inflight' = inflight \ {r}
                /\ UNCHANGED <<sessions, currentSessionId, messages, error>>
        /\ UNCHANGED <<isLoading, editingSessionId, editingName, localStorage,
                       remote, nextId>>

\* The mount effect after its await, the session list arrived.
MountArrived(r) ==
    LET list == SessionsResponse(remote)
    IN  /\ UNCHANGED events
        /\ r \in inflight /\ r.kind = "mount"
        /\ last' = Cont("mountOk", r, <<>>)
        /\ IF Len(list) > 0
           THEN /\ sessions' = list
                /\ loadSession(list[1].id, r.sessions, inflight \ {r}, r.root)
                /\ UNCHANGED messages
           ELSE /\ sessions' = <<>>
                /\ currentSessionId' = NULL
                /\ messages' = <<>>
                /\ inflight' = inflight \ {r}
                /\ UNCHANGED error
        /\ UNCHANGED <<isLoading, editingSessionId, editingName, localStorage,
                       remote, nextId>>

\* The mount effect after its await, the request failed: the cached list.
MountFailed(r) ==
    /\ UNCHANGED events
    /\ r \in inflight /\ r.kind = "mount"
    /\ last' = Cont("mountFail", r, <<>>)
    /\ IF localStorage # NoItem
       THEN LET parsedSessions == Parse(localStorage[1])
            IN  /\ sessions' = parsedSessions
                /\ IF Len(parsedSessions) > 0
                   THEN loadSession(parsedSessions[1].id, r.sessions, inflight \ {r}, r.root)
                   ELSE /\ inflight' = inflight \ {r}
                        /\ UNCHANGED <<currentSessionId, error>>
       ELSE /\ inflight' = inflight \ {r}
            /\ UNCHANGED <<sessions, currentSessionId, error>>
    /\ UNCHANGED <<messages, isLoading, editingSessionId, editingName, localStorage,
                   remote, nextId>>

\* The pencil button: startEditingSession(session.id, session.name).
StartEditing(sessionId) ==
    /\ UserEvent
    /\ sessionId \in Ids(sessions)
    /\ editingSessionId' = sessionId
    /\ editingName' = Find(sessions, sessionId).name
    /\ last' = Event("startEditing", sessionId, <<>>)
    /\ UNCHANGED <<sessions, currentSessionId, messages, isLoading, error,
                   localStorage, remote, inflight, nextId>>

\* Typing into the rename box (it is rendered for a listed session only).
TypeName(name) ==
    /\ UserEvent
    /\ editingSessionId \in Ids(sessions)
    /\ editingName # name
    /\ editingName' = name
    /\ last' = Event("typeName", editingSessionId, name)
    /\ UNCHANGED <<sessions, currentSessionId, messages, isLoading, error,
                   editingSessionId, localStorage, remote, inflight, nextId>>

\* cancelEditing
CancelEditing ==
    /\ UserEvent
    /\ editingSessionId \in Ids(sessions)
    /\ editingSessionId' = NULL
    /\ editingName' = <<>>
    /\ last' = Event("cancelEditing", editingSessionId, <<>>)
    /\ UNCHANGED <<sessions, currentSessionId, messages, isLoading, error,
                   localStorage, remote, inflight, nextId>>

\* Mutant of SaveSessionName: `if (editingName)` without trim().
SaveSessionNameNoTrim ==
    /\ UserEvent
    /\ editingSessionId \in Ids(sessions)
    /\ IF editingName # <<>>
       THEN /\ inflight' = inflight \cup
                 {Request("title", editingSessionId, editingName, sessions, NULL, <<>>,
                          Root("rename", editingSessionId))}
            /\ last' = Event("rename", editingSessionId, editingName)
            /\ UNCHANGED <<editingSessionId, editingName>>
       ELSE /\ editingSessionId' = NULL
            /\ editingName' = <<>>
            /\ last' = Event("renameEmpty", editingSessionId, editingName)
            /\ UNCHANGED inflight
    /\ UNCHANGED <<sessions, currentSessionId, messages, isLoading, error,
                   localStorage, remote, nextId>>

\* saveSessionName up to its await (Enter or blur in the rename box): a name
\* that is empty after trimming ends the edit, any other is sent to the backend.
SaveSessionName ==
    /\ UserEvent
    /\ editingSessionId \in Ids(sessions)
    /\ IF Trim(editingName) # <<>>
       THEN /\ inflight' = inflight \cup
                 {Request("title", editingSessionId, editingName, sessions, NULL, <<>>,
                          Root("rename", editingSessionId))}
            /\ last' = Event("rename", editingSessionId, editingName)
            /\ UNCHANGED <<editingSessionId, editingName>>
       ELSE /\ editingSessionId' = NULL
            /\ editingName' = <<>>
            /\ last' = Event("renameEmpty", editingSessionId, editingName)
            /\ UNCHANGED inflight
    /\ UNCHANGED <<sessions, currentSessionId, messages, isLoading, error,
                   localStorage, remote, nextId>>

\* Mutant of WithName: the renamed session is built anew, without its messages.
WithNameFresh(cs, sessionId, name) ==
    [i \in 1..Len(cs) |->
        IF cs[i].id = sessionId
        THEN Session(cs[i].id, name, cs[i].createdAt, <<>>)
        ELSE cs[i]]

\* sessions.map(s => s.id === id ? { ...s, name } : s)
WithName(cs, sessionId, name) ==
    [i \in 1..Len(cs) |->
        IF cs[i].id = sessionId THEN [cs[i] EXCEPT !.name = name] ELSE cs[i]]

\* Mutant of TitleSettled: when the remote update fails the rename is dropped.
TitleSettledRemoteOnly(r, ok) ==
    LET updatedSessions == WithName(r.sessions, r.sid, Trim(r.text))
    IN  /\ UNCHANGED events
        /\ r \in inflight /\ r.kind = "title"
        /\ inflight' = inflight \ {r}
        /\ remote' = IF ok THEN RemoteRename(remote, r.sid, Trim(r.text)) ELSE remote
        /\ IF ok
           THEN /\ sessions' = updatedSessions
                /\ localStorage' = Item(Stringify(updatedSessions))
           ELSE UNCHANGED <<sessions, localStorage>>
        /\ editingSessionId' = NULL
        /\ editingName' = <<>>
        /\ last' = Cont(IF ok THEN "renameOk" ELSE "renameFail", r, <<>>)
        /\ UNCHANGED <<currentSessionId, messages, isLoading, error, nextId>>

\* saveSessionName after its await: on success and on failure alike the
\* closure's list, renamed, becomes the list and the cache; the edit ends.
TitleSettled(r, ok) ==
    LET updatedSessions == WithName(r.sessions, r.sid, Trim(r.text))
    IN  /\ UNCHANGED events
        /\ r \in inflight /\ r.kind = "title"
        /\ inflight' = inflight \ {r}
        /\ remote' = IF ok THEN RemoteRename(remote, r.sid, Trim(r.text)) ELSE remote
        /\ sessions' = updatedSessions
        /\ localStorage' = Item(Stringify(updatedSessions))
        /\ editingSessionId' = NULL
        /\ editingName' = <<>>
        /\ last' = Cont(IF ok THEN "renameOk" ELSE "renameFail", r, <<>>)
        /\ UNCHANGED <<currentSessionId, messages, isLoading, error, nextId>>

\* The trash button: deleteSession(sessionId) up to its first await.
ClickDelete(sessionId) ==
    /\ UserEvent
    /\ sessionId \in Ids(sessions)
    /\ inflight' = inflight \cup
         {Request("delete", sessionId, <<>>, sessions, currentSessionId, <<>>,
                  Root("delete", sessionId))}
    /\ last' = Event("delete", sessionId, <<>>)
    /\ UNCHANGED <<sessions, currentSessionId, messages, isLoading, error,
                   editingSessionId, editingName, localStorage, remote, nextId>>

\* Mutant of AfterDelete: the messages are not cleared when no session is left.
AfterDeleteKeepsMessages(r, updatedSessions) ==
    IF r.cur = r.sid
    THEN IF Len(updatedSessions) > 0
         THEN /\ loadSession(updatedSessions[1].id, r.sessions, inflight \ {r}, r.root)
              /\ UNCHANGED messages
         ELSE /\ currentSessionId' = NULL
              /\ inflight' = inflight \ {r}
              /\ UNCHANGED <<messages, error>>
    ELSE /\ inflight' = inflight \ {r}
         /\ UNCHANGED <<currentSessionId, messages, error>>

\* "Handle current session logic": when the closure's active session is the
\* deleted one, the head of the updated list is loaded, or the active session
\* and the messages are cleared.
AfterDelete(r, updatedSessions) ==
    IF r.cur = r.sid
    THEN IF Len(updatedSessions) > 0
         THEN /\ loadSession(updatedSessions[1].id, r.sessions, inflight \ {r}, r.root)
              /\ UNCHANGED messages
         ELSE /\ currentSessionId' = NULL
              /\ messages' = <<>>
              /\ inflight' = inflight \ {r}
              /\ UNCHANGED error
    ELSE /\ inflight' = inflight \ {r}
         /\ UNCHANGED <<currentSessionId, messages, error>>

\* deleteSession, the remote delete succeeded: the list is requested anew.
DeleteDone(r) ==
    /\ UNCHANGED events
    /\ r \in inflight /\ r.kind = "delete"
    /\ remote' = RemoteDelete(remote, r.sid)
    /\ inflight' = (inflight \ {r}) \cup
         {[r EXCEPT !.kind = "refresh", !.root.deleted = TRUE]}
    /\ last' = [Cont("deleteDone", r, <<>>) EXCEPT !.root.deleted = TRUE]
    /\ UNCHANGED <<sessions, currentSessionId, messages, isLoading, error,
                   editingSessionId, editingName, localStorage, nextId>>

\* deleteSession, the refreshed list arrived.
RefreshArrived(r) ==
    LET updatedSessions == SessionsResponse(remote)
    IN  /\ UNCHANGED events
        /\ r \in inflight /\ r.kind = "refresh"
        /\ sessions' = updatedSessions
        /\ AfterDelete(r, updatedSessions)
        /\ last' = Cont("deleteOk", r, <<>>)
        /\ UNCHANGED <<isLoading, editingSessionId, editingName, localStorage,
                       remote, nextId>>

\* Mutant of DeleteFailed: the catch block updates the state but not the cache.
DeleteFailedNoCache(r) ==
    LET updatedSessions == SelectSeqBy(r.sessions, r.sid)
    IN  /\ UNCHANGED events
        /\ r \in inflight /\ r.kind \in {"delete", "refresh"}
        /\ sessions' = updatedSessions
        /\ AfterDelete(r, updatedSessions)
        /\ last' = Cont("deleteFail", r, <<>>)
        /\ UNCHANGED <<isLoading, editingSessionId, editingName, localStorage,
                       remote, nextId>>

\* deleteSession, the catch block (the delete or the refresh failed): the
\* session is removed from the closure's list and from the cache.
DeleteFailed(r) ==
    LET updatedSessions == SelectSeqBy(r.sessions, r.sid)
    IN  /\ UNCHANGED events
        /\ r \in inflight /\ r.kind \in {"delete", "refresh"}
        /\ sessions' = updatedSessions
        /\ localStorage' = Item(Stringify(updatedSessions))
        /\ AfterDelete(r, updatedSessions)
        /\ last' = Cont("deleteFail", r, <<>>)
        /\ UNCHANGED <<isLoading, editingSessionId, editingName, remote, nextId>>

\* ------------------------------------------------ Message Exchange Controller
\* Mutant of sendMessage: the previous error is not cleared.
sendMessageKeepsError(ingredients) ==
    IF Trim(ingredients) = <<>>
    THEN /\ last' = Event("sendEmpty", currentSessionId, ingredients)
         /\ UNCHANGED <<sessions, currentSessionId, messages, isLoading, error,
                        localStorage, inflight, nextId>>
    ELSE IF currentSessionId = NULL
    THEN /\ createNewSession
         /\ last' = Event("sendCreate", nextId, ingredients)
         /\ UNCHANGED <<isLoading, inflight>>
    ELSE /\ messages' = Append(messages, UserMessage(ingredients))
         /\ isLoading' = TRUE
         /\ inflight' = inflight \cup
              {Request("send", currentSessionId, ingredients, sessions,
                       currentSessionId, messages, Root("send", currentSessionId))}
         /\ last' = Event("send", currentSessionId, ingredients)
         /\ UNCHANGED <<sessions, currentSessionId, error, localStorage, nextId>>

\* Mutant of sendMessage: no return after createNewSession, so the message is
\* appended and sent with the closure's session id, null.
sendMessageFallsThrough(ingredients) ==
    IF Trim(ingredients) = <<>>
    THEN /\ last' = Event("sendEmpty", currentSessionId, ingredients)
         /\ UNCHANGED <<sessions, currentSessionId, messages, isLoading, error,
                        localStorage, inflight, nextId>>
    ELSE /\ IF currentSessionId = NULL
            THEN /\ sessions' = <<Session(nextId, DefaultName(Len(sessions) + 1), nextId, <<>>)>>
                                \o sessions
                 /\ currentSessionId' = nextId
                 /\ messages' = <<UserMessage(ingredients)>>
                 /\ localStorage' = Item(Stringify(sessions'))
                 /\ nextId' = nextId + 1
                 /\ last' = Event("sendCreate", nextId, ingredients)
            ELSE /\ messages' = Append(messages, UserMessage(ingredients))
                 /\ last' = Event("send", currentSessionId, ingredients)
                 /\ UNCHANGED <<sessions, currentSessionId, localStorage, nextId>>
         /\ isLoading' = TRUE
         /\ error' = NoError
         /\ inflight' = inflight \cup
              {Request("send", currentSessionId, ingredients, sessions,
                       currentSessionId, messages, Root("send", currentSessionId))}

\* Mutant of sendMessage: `if (!ingredients) return` without trim().
sendMessageNoTrim(ingredients) ==
    IF ingredients = <<>>
    THEN /\ last' = Event("sendEmpty", currentSessionId, ingredients)
         /\ UNCHANGED <<sessions, currentSessionId, messages, isLoading, error,
                        localStorage, inflight, nextId>>
    ELSE IF currentSessionId = NULL
    THEN /\ createNewSession
         /\ last' = Event("sendCreate", nextId, ingredients)
         /\ UNCHANGED <<isLoading, inflight>>
    ELSE /\ messages' = Append(messages, UserMessage(ingredients))
         /\ isLoading' = TRUE
         /\ error' = NoError
         /\ inflight' = inflight \cup
              {Request("send", currentSessionId, ingredients, sessions,
                       currentSessionId, messages, Root("send", currentSessionId))}
         /\ last' = Event("send", currentSessionId, ingredients)
         /\ UNCHANGED <<sessions, currentSessionId, localStorage, nextId>>

\* sendMessage(ingredients) up to its await.
sendMessage(ingredients) ==
    IF Trim(ingredients) = <<>>
    THEN /\ last' = Event("sendEmpty", currentSessionId, ingredients)
         /\ UNCHANGED <<sessions, currentSessionId, messages, isLoading, error,
                        localStorage, inflight, nextId>>
    ELSE IF currentSessionId = NULL
    THEN /\ createNewSession
         /\ last' = Event("sendCreate", nextId, ingredients)
         /\ UNCHANGED <<isLoading, inflight>>
    ELSE /\ messages' = Append(messages, UserMessage(ingredients))
         /\ isLoading' = TRUE
         /\ error' = NoError
         /\ inflight' = inflight \cup
              {Request("send", currentSessionId, ingredients, sessions,
                       currentSessionId, messages, Root("send", currentSessionId))}
         /\ last' = Event("send", currentSessionId, ingredients)
         /\ UNCHANGED <<sessions, currentSessionId, localStorage, nextId>>

\* Mutant of HandleSubmit: the input is not disabled while loading.
HandleSubmitNoGuard(message) ==
    /\ UserEvent
    /\ Trim(message) # <<>>
    /\ sendMessage(Trim(message))
    /\ UNCHANGED <<editingSessionId, editingName, remote>>

\* MessageInput.handleSubmit: a message that is non-empty after trimming is
\* passed on, trimmed, unless the input is disabled by the loading flag.
\* (Chat passes isLoading, the no-session branch passes disabled={isLoading}.)
HandleSubmit(message) ==
    /\ UserEvent
    /\ Trim(message) # <<>>
    /\ ~isLoading
    /\ sendMessage(Trim(message))
    /\ UNCHANGED <<editingSessionId, editingName, remote>>

\* response.data.recipes || []  (<<>> stands for an absent list, <<l>> for l)
RecipesOr(data) == IF data = <<>> THEN <<>> ELSE data[1]

\* Mutant of SendArrived: the response is tagged with its session and dropped
\* when that session is no longer the active one.
SendArrivedTagged(r, data) ==
    LET userMessage == UserMessage(r.text)
        aiMessage == AiMessage(RecipesOr(data), r.text)
        updatedMessages == r.messages \o <<userMessage, aiMessage>>
        updatedSessions == WithMessages(r.sessions, r.cur, updatedMessages)
    IN  /\ UNCHANGED events
        /\ r \in inflight /\ r.kind = "send"
        /\ inflight' = inflight \ {r}
        /\ remote' = RemoteSend(remote, r.sid, r.text, RecipesOr(data))
        /\ IF currentSessionId = r.sid
           THEN /\ messages' = Append(messages, aiMessage)
                /\ sessions' = updatedSessions
                /\ localStorage' = Item(Stringify(updatedSessions))
           ELSE UNCHANGED <<messages, sessions, localStorage>>
        /\ isLoading' = FALSE
        /\ last' = Cont("sendOk", r, data)
        /\ UNCHANGED <<currentSessionId, error, editingSessionId, editingName,
                       nextId>>

\* Mutant of SendArrived: setMessages([...messages, aiMessage]) with the
\* closure's messages instead of the functional update.
SendArrivedStaleAppend(r, data) ==
    LET userMessage == UserMessage(r.text)
        aiMessage == AiMessage(RecipesOr(data), r.text)
        updatedMessages == r.messages \o <<userMessage, aiMessage>>
        updatedSessions == WithMessages(r.sessions, r.cur, updatedMessages)
    IN  /\ UNCHANGED events
        /\ r \in inflight /\ r.kind = "send"
        /\ inflight' = inflight \ {r}
        /\ remote' = RemoteSend(remote, r.sid, r.text, RecipesOr(data))
        /\ messages' = Append(r.messages, aiMessage)
        /\ sessions' = updatedSessions
        /\ localStorage' = Item(Stringify(updatedSessions))
        /\ isLoading' = FALSE
        /\ last' = Cont("sendOk", r, data)
        /\ UNCHANGED <<currentSessionId, error, editingSessionId, editingName,
                       nextId>>

\* sendMessage after its await, the recipes arrived; then the finally block.
SendArrived(r, data) ==
    LET userMessage == UserMessage(r.text)
        aiMessage == AiMessage(RecipesOr(data), r.text)
        updatedMessages == r.messages \o <<userMessage, aiMessage>>
        updatedSessions == WithMessages(r.sessions, r.cur, updatedMessages)
    IN  /\ UNCHANGED events
        /\ r \in inflight /\ r.kind = "send"
        /\ inflight' = inflight \ {r}
        /\ remote' = RemoteSend(remote, r.sid, r.text, RecipesOr(data))
        /\ messages' = Append(messages, aiMessage)
        /\ sessions' = updatedSessions
        /\ localStorage' = Item(Stringify(updatedSessions))
        /\ isLoading' = FALSE
        /\ last' = Cont("sendOk", r, data)
        /\ UNCHANGED <<currentSessionId, error, editingSessionId, editingName,
                       nextId>>

\* Mutant of ErrorText: no generic message when the detail is missing.
ErrorTextNoFallback(detail) == detail

\* error.response?.data?.detail || 'Failed to get recipe suggestions. ...'
ErrorText(detail) == IF detail = NoDetail THEN GenericError ELSE detail

\* Mutant of SendFailed: the loading flag is cleared on success only (no
\* finally block).
SendFailedNoFinally(r, detail) ==
    /\ UNCHANGED events
    /\ r \in inflight /\ r.kind = "send"
    /\ inflight' = inflight \ {r}
    /\ error' = ErrorText(detail)
    /\ last' = Cont("sendFail", r, detail)
    /\ UNCHANGED <<sessions, currentSessionId, messages, isLoading, editingSessionId,
                   editingName, localStorage, remote, nextId>>

\* Mutant of SendFailed: the catch block takes the user message back.
SendFailedRollsBack(r, detail) ==
    /\ UNCHANGED events
    /\ r \in inflight /\ r.kind = "send"
    /\ inflight' = inflight \ {r}
    /\ error' = ErrorText(detail)
    /\ isLoading' = FALSE
    /\ messages' = r.messages
    /\ last' = Cont("sendFail", r, detail)
    /\ UNCHANGED <<sessions, currentSessionId, editingSessionId,
                   editingName, localStorage, remote, nextId>>

\* sendMessage after its await, the request failed; then the finally block.
SendFailed(r, detail) ==
    /\ UNCHANGED events
    /\ r \in inflight /\ r.kind = "send"
    /\ inflight' = inflight \ {r}
    /\ error' = ErrorText(detail)
    /\ isLoading' = FALSE
    /\ last' = Cont("sendFail", r, detail)
    /\ UNCHANGED <<sessions, currentSessionId, messages, editingSessionId,
                   editingName, localStorage, remote, nextId>>

\* ------------------------------------------------------------ specification
Next ==
    \/ ClickNewSession
    \/ \E id \in Ids(sessions) : ClickSession(id)
    \/ \E r \in inflight : HistoryArrived(r)
    \/ \E r \in inflight : HistoryFailed(r)
    \/ \E r \in inflight : MountArrived(r)
    \/ \E r \in inflight : MountFailed(r)
    \/ \E id \in Ids(sessions) : StartEditing(id)
    \/ \E name \in RawNames : TypeName(name)
    \/ CancelEditing
    \/ SaveSessionName
    \/ \E r \in inflight, ok \in BOOLEAN : TitleSettled(r, ok)
    \/ \E id \in Ids(sessions) : ClickDelete(id)
    \/ \E r \in inflight : DeleteDone(r)
    \/ \E r \in inflight : RefreshArrived(r)
    \/ \E r \in inflight : DeleteFailed(r)
    \/ \E message \in RawTexts : HandleSubmit(message)
    \/ \E r \in inflight, data \in RecipeData : SendArrived(r, data)
    \/ \E r \in inflight, detail \in Details : SendFailed(r, detail)

Spec == Init /\ [][Next]_vars

\* sendMessage called with a text that is empty after trimming.  handleSubmit
\* never passes one on, so this call is made on the function itself, as a
\* caller of the onSendMessage prop may make it.
SendBlank(ingredients) ==
    /\ UserEvent
    /\ Trim(ingredients) = <<>>
    /\ sendMessage(ingredients)
    /\ UNCHANGED <<editingSessionId, editingName, remote>>

\* The application with sendMessage also called on blank texts.
NextDirect ==
    \/ Next
    \/ \E ingredients \in RawTexts : SendBlank(ingredients)

SpecDirect == Init /\ [][NextDirect]_vars

\* ------------------------------------------------- the cache blob on its own
\* Message sequences, sessions and session lists that may be saved.
CacheableMessages ==
    { <<>>,
      <<UserMessage(<<"e">>)>>,
      <<UserMessage(<<"e">>), AiMessage(<<"Pancakes">>, <<"e">>)>>,
      <<UserMessage(<<" ", "e">>), AiMessage(<<>>, <<" ", "e">>)>> }

CacheableSessions ==
    { Session(id, name, id, msgs) :
        id \in {1, 11}, name \in {DefaultName(1), <<"S">>}, msgs \in CacheableMessages }

CacheableLists == UNION { [1..n -> CacheableSessions] : n \in 0..MaxListLen }

\* Some session list is held and nothing is cached.
InitRoundTrip ==
    /\ sessions \in CacheableLists
    /\ currentSessionId = NULL
    /\ messages = <<>>
    /\ isLoading = FALSE
    /\ error = NoError
    /\ editingSessionId = NULL
    /\ editingName = <<>>
    /\ localStorage = NoItem
    /\ remote = <<>>
    /\ inflight = {}
    /\ nextId = 1
    /\ events = 0
    /\ last = Step("init", NULL, <<>>, MountRoot, TRUE)

\* localStorage.setItem('easyrecipe_sessions', JSON.stringify(sessions))
SaveList ==
    /\ localStorage' = Item(Stringify(sessions))
    /\ last' = Step("save", NULL, sessions, MountRoot, TRUE)
    /\ UNCHANGED <<sessions, currentSessionId, messages, isLoading, error,
                   editingSessionId, editingName, remote, inflight, nextId, events>>

\* setSessions(JSON.parse(localStorage.getItem('easyrecipe_sessions')))
LoadList ==
    /\ localStorage # NoItem
    /\ sessions' = Parse(localStorage[1])
    /\ last' = Step("loadList", NULL, last.arg, MountRoot, TRUE)
    /\ UNCHANGED <<currentSessionId, messages, isLoading, error, editingSessionId,
                   editingName, localStorage, remote, inflight, nextId, events>>

NextRoundTrip ==
    \/ SaveList
    \/ LoadList

SpecRoundTrip == InitRoundTrip /\ [][NextRoundTrip]_vars

\* ------------------------------------------------------------------ claims
\* The sessions of the Local Cache blob (none when there is no item).
CachedSessions == IF localStorage = NoItem THEN <<>> ELSE Parse(localStorage[1])

HistoryOps == {"historyOk", "historyEmpty", "historyFail"}

\* A deleteSession has settled, with the activation it triggered, and no step
\* of another operation came in between.
DeleteSettled ==
    /\ last.root.op = "delete"
    /\ last.solo
    /\ last.op \in {"deleteOk", "deleteFail"} \cup HistoryOps
    /\ \A r \in inflight : r.root # last.root

\* C1: after deleteSession of the active session, called with another session
\* in the list, has settled with a session left in the list, the active session is the head of the list and is not
\* the deleted session.
C1_ActiveIsHeadAfterDelete ==
    (DeleteSettled /\ last.root.cur = last.root.sid /\ last.root.others
                   /\ sessions # <<>>)
        => /\ currentSessionId = sessions[1].id
           /\ currentSessionId # last.root.sid

\* C2: after deleteSession(id) has settled, id is in neither the session list
\* nor the Local Cache blob, nor in the remote store when the remote delete
\* succeeded.
C2_DeletedIsGone ==
    DeleteSettled
        => /\ last.root.sid \notin Ids(sessions)
           /\ last.root.sid \notin Ids(CachedSessions)
           /\ last.root.deleted => last.root.sid \notin Ids(remote)

\* Every assistant message directly follows the user message it answers.
Paired(msgs) ==
    \A i \in 1..Len(msgs) :
        msgs[i].type = "ai"
            => /\ i > 1
               /\ msgs[i - 1].type = "user"
               /\ msgs[i - 1].re = msgs[i].re

\* C3: in every reachable state every assistant message of the in-memory
\* message sequence directly follows the user message it answers (so no user
\* message is followed by two assistant messages).
C3_MessagesPaired == Paired(messages)

\* The steps that are user events (the others are continuations of requests).
UserOps ==
    {"create", "load", "startEditing", "typeName", "cancelEditing", "rename",
     "renameEmpty", "delete", "sendEmpty", "sendCreate", "send"}

\* The generation requests in flight.
Sends == { r \in inflight : r.kind = "send" }

\* C4: no request is cancelled or tagged.  A request leaves the requests in
\* flight only by its own continuation, and the continuation of a generation
\* or history request issued for a session that is no longer the active one
\* still writes the in-memory message sequence.
C4_LateResponseApplies ==
    [][\A r \in inflight \ inflight' :
          /\ last'.root.op = r.root.op /\ last'.root.sid = r.root.sid
          /\ last'.op \notin UserOps
          /\ (last'.op = "sendOk" /\ currentSessionId # r.sid)
                => messages' = Append(messages, AiMessage(RecipesOr(last'.arg), r.text))
          /\ (last'.op = "historyOk" /\ currentSessionId # r.sid)
                => messages' = BackendMessages(HistoryResponse(remote, r.sid))]_vars

\* A generation request was issued for the session then active, another
\* session became active, and the late reply is the last of the messages shown.
C4_Witness ==
    /\ last.op = "sendOk"
    /\ last.root.cur = last.sid
    /\ currentSessionId \notin {NULL, last.sid}
    /\ messages # <<>>
    /\ messages[Len(messages)] = AiMessage(RecipesOr(last.arg), <<"e">>)

\* C5 as stated: every sendMessage with ingredients that are non-empty after
\* trimming appends one user message with that text, sets the loading flag
\* and clears the error.
C5_SendAppendsAlways ==
    [][last'.op \in {"send", "sendCreate"}
          => /\ messages' = Append(messages, UserMessage(last'.arg))
             /\ isLoading'
             /\ error' = NoError]_vars

\* C5 amended: every sendMessage with ingredients that are non-empty after
\* trimming, called while a session is active, appends one user message with
\* that text, sets the loading flag and clears the error.
C5_SendAppends ==
    [][(last'.op \in {"send", "sendCreate"} /\ currentSessionId # NULL)
          => /\ Trim(last'.arg) # <<>>
             /\ messages' = Append(messages, UserMessage(last'.arg))
             /\ isLoading'
             /\ error' = NoError]_vars

\* A message was sent in an active session that showed messages: the user
\* message is appended, the flag set, the error clear, the request in flight.
C5_Witness ==
    /\ last.op = "send"
    /\ Len(messages) > 1
    /\ messages[Len(messages)] = UserMessage(last.arg)
    /\ isLoading
    /\ error = NoError
    /\ Sends # {}

\* C6: a failed generation request appends no message and sets the error to
\* the failure detail when there is one, to the generic message otherwise; the
\* error is not empty.
C6_FailureSetsError ==
    [][last'.op = "sendFail"
          => /\ messages' = messages
             /\ error' # NoError
             /\ error' = IF last'.arg # NoDetail THEN last'.arg ELSE GenericError]_vars

\* A generation request failed without a detail: the generic message is shown
\* and the user message is the last message.
C6_Witness ==
    /\ last.op = "sendFail"
    /\ last.arg = NoDetail
    /\ error = GenericError
    /\ messages # <<>>
    /\ messages[Len(messages)].type = "user"

\* C7: the loading flag is set exactly while a generation request is in
\* flight, so it is clear once the request has settled, on success and on
\* failure.
C7_LoadingWhileOutstanding == isLoading <=> Sends # {}

\* A generation request failed and the flag is clear again.
C7_Witness ==
    /\ last.op = "sendFail"
    /\ ~isLoading
    /\ Sends = {}

\* C8: at most one generation request is in flight, and only while the
\* loading flag, which disables the input, is set.
C8_OneGenerationRequest ==
    /\ Cardinality(Sends) <= 1
    /\ Sends # {} => isLoading

\* A generation request is in flight for a session that is no longer the
\* active one, and the flag still disables the input.
C8_Witness ==
    /\ Cardinality(Sends) = 1
    /\ isLoading
    /\ \E r \in Sends : currentSessionId \notin {NULL, r.sid}
    /\ last.op \in {"create", "load"}

\* C9: sendMessage with non-empty ingredients while no session is active
\* makes a new session the head of the list and the active session, issues no
\* request, leaves no message and does not set the loading flag.
C9_SendWithoutSession ==
    [][(last'.op \in {"send", "sendCreate"} /\ currentSessionId = NULL)
          => /\ Len(sessions') = Len(sessions) + 1
             /\ SubSeq(sessions', 2, Len(sessions')) = sessions
             /\ sessions'[1].id \notin Ids(sessions)
             /\ currentSessionId' = sessions'[1].id
             /\ currentSessionId' # NULL
             /\ inflight' = inflight
             /\ messages' = <<>>
             /\ ~isLoading']_vars

\* A message was submitted with no session active: a session was created.
C9_Witness ==
    /\ last.op = "sendCreate"
    /\ last.arg = <<"e">>
    /\ currentSessionId = last.sid
    /\ sessions[1].id = last.sid
    /\ Sends = {}
    /\ messages = <<>>

\* C10: a successful sendMessage with no other step between the call and the
\* response leaves the messages of the call, then the user message with the
\* ingredients, then one assistant message with the returned recipes (none when
\* the response carries no list).
C10_SendRoundTrip ==
    [][/\ last'.op = "send"
          => \E r \in inflight' \ inflight : r.kind = "send" /\ r.messages = messages
       /\ (last'.op = "sendOk" /\ last'.solo)
          => /\ last.op = "send"
             /\ \E r \in inflight \ inflight' :
                   messages' = r.messages \o
                       <<UserMessage(last.arg),
                         AiMessage(RecipesOr(last'.arg), last.arg)>>]_vars

\* A session with two messages got two more by a send answered with a recipe.
C10_Witness ==
    /\ last.op = "sendOk"
    /\ last.solo
    /\ last.arg = <<<<"Pancakes">>>>
    /\ Len(messages) = 4
    /\ messages[3] = UserMessage(<<"e">>)
    /\ messages[4] = AiMessage(<<"Pancakes">>, <<"e">>)

\* The messages the session list holds for session id.
ListedMessages(ss, id) == Find(ss, id).messages

\* C11: when a successful sendMessage settles for a listed session that is
\* still the active one, directly after the call or directly after a history
\* response for that session, the messages of that session in the session list
\* and in the Local Cache equal the in-memory message sequence.
C11_CacheMatchesMessages ==
    [][(/\ last'.op = "sendOk"
        /\ currentSessionId = last'.sid
        /\ last'.sid \in Ids(sessions)
        /\ \/ last.op = "send"
           \/ last.op \in HistoryOps /\ last.sid = last'.sid)
          => /\ last'.sid \in Ids(sessions')
             /\ ListedMessages(sessions', last'.sid) = messages'
             /\ last'.sid \in Ids(CachedSessions')
             /\ ListedMessages(CachedSessions', last'.sid) = messages']_vars

\* The name the session list holds for session id.
ListedName(ss, id) == Find(ss, id).name

\* C12: when a rename to a name that is non-empty after trimming settles,
\* whether the remote title update succeeded or failed, the session carries
\* the trimmed name in the session list and in the Local Cache.
C12_RenameApplied ==
    [][last'.op \in {"renameOk", "renameFail"}
          => \E r \in inflight \ inflight' :
                /\ r.kind = "title"
                /\ Trim(r.text) # <<>>
                /\ r.sid \in Ids(sessions')
                /\ ListedName(sessions', r.sid) = Trim(r.text)
                /\ r.sid \in Ids(CachedSessions')
                /\ ListedName(CachedSessions', r.sid) = Trim(r.text)]_vars

\* The remote update of a rename failed: the session still carries the new
\* name, which differs from the title the remote store keeps.
C12_Witness ==
    /\ last.op = "renameFail"
    /\ last.sid \in Ids(sessions)
    /\ ListedName(sessions, last.sid) = <<"S">>
    /\ ListedName(CachedSessions, last.sid) = <<"S">>
    /\ last.sid \in Ids(remote)
    /\ Find(remote, last.sid).title # <<"S">>
    /\ editingSessionId = NULL

\* The names of the sessions of a list, in order.
Names(ss) == [i \in 1..Len(ss) |-> ss[i].name]

\* C13: saving a rename whose name is empty or only white space leaves the
\* name of every session as it was, in the session list and in the Local
\* Cache, and ends the edit mode; every name that is saved while in edit mode
\* and is empty after trimming takes this path.
C13_EmptyRenameKeepsNames ==
    [][/\ last'.op = "renameEmpty"
          => /\ Trim(last'.arg) = <<>>
             /\ Names(sessions') = Names(sessions)
             /\ Names(CachedSessions') = Names(CachedSessions)
             /\ editingSessionId' = NULL
             /\ editingName' = <<>>
       /\ last'.op = "rename"
          => Trim(editingName) # <<>>]_vars

\* A name of white space only was saved for a listed session: the edit mode
\* has ended and the session has a name that is not empty.
C13_Witness ==
    /\ last.op = "renameEmpty"
    /\ last.arg = <<" ">>
    /\ editingSessionId = NULL
    /\ last.sid \in Ids(sessions)
    /\ Trim(ListedName(sessions, last.sid)) # <<>>

\* C14: sendMessage with ingredients that are empty after trimming issues no
\* request and changes neither the messages, the session list, the active
\* session, the loading flag, the error nor the cache, and no blank text gets
\* past that check; saving a rename that is empty after trimming issues no
\* request, and no blank name is sent to the remote store.
C14_EmptyInputsRejected ==
    [][/\ last'.op = "sendEmpty"
          => /\ Trim(last'.arg) = <<>>
             /\ UNCHANGED <<messages, sessions, currentSessionId, isLoading, error,
                            localStorage, inflight, remote>>
       /\ last'.op \in {"send", "sendCreate"}
          => Trim(last'.arg) # <<>>
       /\ last'.op = "renameEmpty"
          => UNCHANGED <<inflight, remote>>
       /\ last'.op = "rename"
          => Trim(last'.arg) # <<>>]_vars

\* sendMessage was called with white space while a session with messages was
\* active and an error was shown: nothing was sent and the error still shows.
C14_Witness ==
    /\ last.op = "sendEmpty"
    /\ last.arg = <<" ">>
    /\ currentSessionId # NULL
    /\ messages # <<>>
    /\ error # NoError
    /\ inflight = {}

Kept(s, id) == { i \in 1..Len(s) : s[i].id # id }

\* t is s without the sessions of identifier id, the others in their order.
IsWithout(t, s, id) ==
    /\ Len(t) = Cardinality(Kept(s, id))
    /\ \A k \in 1..Len(t) :
          \E i \in Kept(s, id) :
             /\ Cardinality({ j \in Kept(s, id) : j <= i }) = k
             /\ t[k] = s[i]

\* C16: when the remote delete or the refresh after it fails, the session
\* list and the Local Cache become the list deleteSession was called with,
\* without the session and in the same order; that list is the list just
\* before the failure when no other step came in between.
C16_DeleteFallsBack ==
    [][last'.op = "deleteFail"
          => \E r \in inflight \ inflight' :
                /\ r.kind \in {"delete", "refresh"}
                /\ IsWithout(sessions', r.sessions, r.sid)
                /\ CachedSessions' = sessions'
                /\ r.sid \notin Ids(sessions')
                /\ last'.solo => r.sessions = sessions]_vars

\* The refresh after a successful remote delete failed: the middle one of
\* three sessions is gone from the list and the cache, the other two are in
\* their order.
C16_Witness ==
    /\ last.op = "deleteFail"
    /\ last.root.deleted
    /\ last.solo
    /\ Len(sessions) = 2
    /\ sessions[1].id < sessions[2].id
    /\ sessions[2].id < last.root.sid
    /\ CachedSessions = sessions

C18_LoadReplacesMessages ==
    [][last'.op = "historyOk"
          => \E r \in inflight \ inflight' :
                LET history == HistoryResponse(remote, r.sid)
                IN  /\ Len(history) > 0
                    /\ Len(messages') = 2 * Len(history)
                    /\ \A k \in 1..Len(history) :
                          /\ messages'[2 * k - 1].type = "user"
                          /\ messages'[2 * k - 1].content = history[k].ingredients
                          /\ messages'[2 * k].type = "ai"
                          /\ messages'[2 * k].content = history[k].recipes
                    /\ (last'.root.op = "load" /\ last'.solo)
                          => /\ Len(sessions') = Len(sessions)
                             /\ \A i \in 1..Len(sessions) :
                                   IF sessions[i].id = r.sid
                                   THEN sessions'[i] =
                                           [sessions[i] EXCEPT !.messages = messages']
                                   ELSE sessions'[i] = sessions[i]
                             /\ r.sid \in Ids(sessions')
                             /\ CachedSessions' = sessions']_vars

\* A session with two exchanges in the remote store was loaded, with another
\* session in the list: four messages are shown and stored.
C18_Witness ==
    /\ last.op = "historyOk"
    /\ last.root.op = "load"
    /\ last.solo
    /\ Len(messages) = 4
    /\ messages[3].type = "user"
    /\ messages[4].type = "ai"
    /\ Len(sessions) = 2
    /\ ListedMessages(sessions, last.sid) = messages
    /\ ListedMessages(CachedSessions, last.sid) = messages

\* C19: createNewSession, from the button or from a send with no active
\* session, puts one session with an identifier no listed session has and with
\* no messages at the head of the list, keeps the sessions listed before
\* behind it in their order, makes it the active session, empties the message
\* sequence and writes the resulting list to the Local Cache.
C19_CreateAddsHead ==
    [][last'.op \in {"create", "sendCreate"}
          => /\ Len(sessions') = Len(sessions) + 1
             /\ \A i \in 1..Len(sessions) : sessions'[i + 1] = sessions[i]
             /\ sessions'[1].id \notin Ids(sessions)
             /\ sessions'[1].id # NULL
             /\ sessions'[1].messages = <<>>
             /\ currentSessionId' = sessions'[1].id
             /\ messages' = <<>>
             /\ localStorage' # NoItem
             /\ Parse(localStorage'[1]) = sessions']_vars

\* A session was created by the button while another session with messages was
\* shown: it is the head of three sessions, active, with no message shown.
C19_Witness ==
    /\ last.op = "create"
    /\ last.root.cur \notin {NULL, last.sid}
    /\ Len(sessions) = 3
    /\ sessions[1].id = last.sid
    /\ sessions[2].messages # <<>>
    /\ currentSessionId = last.sid
    /\ messages = <<>>
    /\ CachedSessions = sessions

\* The steps in which a remote call other than the generation request failed.
QuietFailures == {"historyFail", "renameFail", "deleteFail", "mountFail"}

\* C20: the error state changes to a value that is not empty only in the step
\* in which a generation request fails; a failed history, title, delete,
\* refresh or first list request leaves the error as it was or empty.
C20_ErrorOnlyFromGeneration ==
    [][/\ (error' # error /\ error' # NoError) => last'.op = "sendFail"
       /\ last'.op \in QuietFailures => error' \in {error, NoError}]_vars

\* The history request of a clicked session failed, and the session has no
\* messages to fall back to: the chat is empty and still no error is shown.
C20_Witness ==
    /\ last.op = "historyFail"
    /\ last.root.op = "load"
    /\ last.solo
    /\ currentSessionId = last.sid
    /\ messages = <<>>
    /\ error = NoError

C22_RenameChangesNameOnly ==
    [][last'.op \in {"renameOk", "renameFail"}
          => \E r \in inflight \ inflight' :
                /\ Len(sessions') = Len(r.sessions)
                /\ \A i \in 1..Len(sessions') : sessions'[i].id = r.sessions[i].id
                /\ currentSessionId' = currentSessionId
                /\ messages' = messages
                /\ last'.solo
                      => /\ r.sessions = sessions
                         /\ \A i \in 1..Len(sessions) :
                               /\ sessions'[i].createdAt = sessions[i].createdAt
                               /\ sessions'[i].messages = sessions[i].messages
                               /\ sessions[i].id # r.sid => sessions'[i] = sessions[i]]_vars

\* The second of two sessions was renamed: it is still the second, under the
\* new name, and the first has kept its name.
C22_Witness ==
    /\ last.op \in {"renameOk", "renameFail"}
    /\ last.solo
    /\ Len(sessions) = 2
    /\ sessions[2].id = last.sid
    /\ sessions[2].name = <<"S">>
    /\ sessions[1].name = DefaultTitle
    /\ sessions[1].id # sessions[2].id
    /\ CachedSessions = sessions

\* C23: in every reachable state with no request in flight, the active
\* session id is null or the id of a session of the session list.
C23_ActiveIsListed ==
    inflight = {} => (currentSessionId = NULL \/ currentSessionId \in Ids(sessions))

\* The continuations that write the session list for one target session.
ListWriters == {"historyOk", "renameOk", "renameFail", "sendOk"}

\* C24: the continuation of a history, rename or generation request keeps
\* the sessions of the list as it is when the response arrives, in their
\* order, changes no entry but that of its target session, and leaves the
\* Local Cache holding the resulting list.
C24_ContinuationKeepsOthers ==
    [][last'.op \in ListWriters
          => /\ Len(sessions') = Len(sessions)
             /\ \A i \in 1..Len(sessions) :
                   /\ sessions'[i].id = sessions[i].id
                   /\ sessions[i].id # last'.sid => sessions'[i] = sessions[i]
             /\ CachedSessions' = sessions']_vars

\* The steps that complete a createSession, a rename to a non-empty name, a
\* deleteSession, a successful sendMessage or a loadSession with a non-empty
\* history.
CacheWriters ==
    {"create", "sendCreate", "renameOk", "renameFail", "deleteOk", "deleteFail",
     "sendOk", "historyOk"}

\* C25: whenever no request is in flight and the step just taken completed a
\* createSession, a rename, a deleteSession, a successful sendMessage or a
\* loadSession with a non-empty history, the Local Cache holds a blob and the
\* blob holds the session list.
C25_CacheIsList ==
    (inflight = {} /\ last.op \in CacheWriters)
        => /\ localStorage # NoItem
           /\ CachedSessions = sessions

\* C26: when the first session-list request returned a non-empty list, that
\* list is the session list, and once the requests the mount triggered have
\* settled, with no other step taken, the head of the list is the active
\* session and the messages are those the list holds for it.
C26_MountActivatesHead ==
    (/\ last.root.op = "mount"
     /\ last.op \in {"mountOk"} \cup HistoryOps
     /\ last.solo
     /\ sessions # <<>>
     /\ \A r \in inflight : r.root.op # "mount")
        => /\ currentSessionId = sessions[1].id
           /\ messages = ListedMessages(sessions, sessions[1].id)

\* C27: when the first session-list request succeeds the session list becomes
\* the remote list, whatever the Local Cache holds, and on an empty remote list
\* no session is active and no message is shown; when it fails the session
\* list becomes the cached list if there is a blob and stays as it is
\* otherwise; neither case writes the Local Cache.
C27_MountUsesCacheOnFailure ==
    [][/\ last'.op = "mountOk"
          => /\ sessions' = SessionsResponse(remote)
             /\ sessions' = <<>> => (currentSessionId' = NULL /\ messages' = <<>>)
       /\ last'.op = "mountFail"
          => sessions' = IF localStorage # NoItem THEN CachedSessions ELSE sessions
       /\ last'.op \in {"mountOk", "mountFail"}
          => localStorage' = localStorage]_vars

\* The first session-list request returned an empty list while the Local
\* Cache holds a session: the list is empty, no session is active and no
\* message is shown.
C27_Witness ==
    /\ last.op = "mountOk"
    /\ remote = <<>>
    /\ CachedSessions # <<>>
    /\ sessions = <<>>
    /\ currentSessionId = NULL
    /\ messages = <<>>

\* C28: the failure of a generation request changes neither the session list,
\* the Local Cache, the active session id nor the message sequence; when no
\* other step came since the call, the message sequence is the one of the
\* call followed by the user message, and the active session is the one the
\* message was sent in.
C28_FailedSendFrame ==
    [][last'.op = "sendFail"
          => \E r \in inflight \ inflight' :
                /\ sessions' = sessions
                /\ localStorage' = localStorage
                /\ currentSessionId' = currentSessionId
                /\ messages' = messages
                /\ last'.solo
                      => /\ messages' = Append(r.messages, UserMessage(r.text))
                         /\ currentSessionId' = r.sid]_vars

\* A generation request failed in a session that showed an exchange: the user
\* message is the third message, and the session list still holds the two of
\* the exchange.
C28_Witness ==
    /\ last.op = "sendFail"
    /\ last.solo
    /\ currentSessionId = last.sid
    /\ Len(messages) = 3
    /\ messages[3].type = "user"
    /\ last.sid \in Ids(sessions)
    /\ Len(ListedMessages(sessions, last.sid)) = 2
    /\ error # NoError

\* C29: when a deleteSession settles for a session that is not the active one
\* at that time, the active session id and the message sequence are unchanged.
C29_DeleteOtherKeepsActive ==
    [][last'.op \in {"deleteOk", "deleteFail"}
          => \A r \in inflight \ inflight' :
                currentSessionId # r.sid
                    => /\ currentSessionId' = currentSessionId
                       /\ messages' = messages]_vars

\* The steps in which loadSession is called by another handler.
LoadCallers == {"mountOk", "mountFail", "deleteOk", "deleteFail"}

\* C30: when the mount effect or deleteSession calls loadSession with the head
\* of the list it has just set and the list of the calling render does not
\* hold that session, no request is issued and the active session id, the
\* message sequence and the error are as before; the session list is the one
\* the caller set, and the Local Cache is as the caller left it.
C30_LoadUnknownNoOp ==
    [][last'.op \in LoadCallers
          => \A r \in inflight \ inflight' :
                (/\ last'.root.op = "delete" => r.cur = r.sid
                 /\ sessions' # <<>>
                 /\ sessions'[1].id \notin Ids(r.sessions))
                    => /\ inflight' = inflight \ {r}
                       /\ currentSessionId' = currentSessionId
                       /\ messages' = messages
                       /\ error' = error
                       /\ last'.op \in {"mountOk", "deleteOk"}
                             => /\ sessions' = SessionsResponse(remote)
                                /\ localStorage' = localStorage
                       /\ last'.op = "mountFail"
                             => localStorage' = localStorage]_vars

\* The first session-list response arrived while a locally created session
\* showed a message and an error: the list is the remote one, and the active
\* session, the message and the error are still there.
C30_Witness ==
    /\ last.op = "mountOk"
    /\ Len(sessions) = 2
    /\ inflight = {}
    /\ currentSessionId \notin {NULL} \cup Ids(sessions)
    /\ messages # <<>>
    /\ error # NoError

====
